---------------------------- MODULE Spec2Model ----------------------------
(***************************************************************************)
(* Model of zp.ImportRider (src/zp/zp.go): the decoding of a rider's event *)
(* history and its reduction into a Rider record.                          *)
(*                                                                         *)
(* Representation.                                                         *)
(*  - Time is an integer number of units since the Unix epoch; DayLen      *)
(*    units make 24 hours.  Durations are subtracted and divided exactly.  *)
(*  - A float64 ratio is an integer number of hundredths.                  *)
(*  - A Go string that the code inspects (the event type, a ratio given as *)
(*    text) is a sequence of one-character strings; a title is an atom.    *)
(*  - An interface{} ratio field is a tagged value: nil, a scalar, or a    *)
(*    list of tagged elements (float64, string, or another JSON type).     *)
(***************************************************************************)
EXTENDS Integers, Sequences, FiniteSets, TLC

VARIABLES raw, data, pc, i, loc, rider, latestEventDate, latestRaceDate, now, reads, err

vars == <<raw, data, pc, i, loc, rider, latestEventDate, latestRaceDate, now, reads, err>>

-----------------------------------------------------------------------------
(* Bounds of the model *)

\* longest event history
MaxEvents == 3
\* longest event history drawn from the universes of window edges
MaxEventsWide == 2
\* time units per 24 hours
DayLen == 2
\* the day (since the epoch) on which the run starts: 2026-11-03
NowDay == 20760
\* how many units the wall clock may advance while the loop runs
MaxTicks == 1

-----------------------------------------------------------------------------
(* Values of the program *)

\* days from 0001-01-01 (the zero time.Time) to 1970-01-01
ZeroTimeDaysBeforeEpoch == 719162

\* var latestEventDate time.Time : the zero value
ZeroTime == -(ZeroTimeDaysBeforeEpoch * DayLen)

\* the zero value of Rider (Name and Zwid are not part of the reduction)
ZeroRider ==
    [ LatestEventDate  |-> ZeroTime,
      Rides            |-> 0,
      Races            |-> 0,
      Races90          |-> 0,
      Races30          |-> 0,
      Ftp90            |-> 0,
      Ftp60            |-> 0,
      Ftp30            |-> 0,
      LatestRace       |-> "",
      LatestRaceDate   |-> ZeroTime,
      LatestEvent      |-> "",
      LatestRaceAvgWkg |-> 0,
      LatestRaceWkgFtp |-> 0 ]

\* the literal "RACE" of strings.Contains(e.EventType, "RACE")
RACE == <<"R", "A", "C", "E">>

-----------------------------------------------------------------------------
(* Library functions the code calls *)

\* strings.Contains
Contains(s, sub) ==
    \E k \in 0..(Len(s) - Len(sub)) : SubSeq(s, k + 1, k + Len(sub)) = sub

\* integer conversion of a float: truncation toward zero
Trunc(a, b) == IF a >= 0 THEN a \div b ELSE -((-a) \div b)

\* time.Unix(secs, 0): the instant secs units after the epoch
TimeUnix(secs) == secs

\* After with ties let through
AfterOrEqual(t, u) == t >= u

\* t.After(u)
After(t, u) == t > u

Digits == {"0", "1", "2", "3", "4", "5", "6", "7", "8", "9"}

DigitVal(c) ==
    CASE c = "0" -> 0 [] c = "1" -> 1 [] c = "2" -> 2 [] c = "3" -> 3
      [] c = "4" -> 4 [] c = "5" -> 5 [] c = "6" -> 6 [] c = "7" -> 7
      [] c = "8" -> 8 [] c = "9" -> 9

RECURSIVE DigitsVal(_)
DigitsVal(s) ==
    IF s = <<>> THEN 0
    ELSE DigitsVal(SubSeq(s, 1, Len(s) - 1)) * 10 + DigitVal(s[Len(s)])

\* strconv.ParseFloat(s, 64) on decimal text: an optional sign, digits with
\* at most one point, at least one digit.  The value is in hundredths; the
\* texts of the model carry at most two fraction digits.
ParseFloat(s) ==
    LET signed == Len(s) > 0 /\ s[1] \in {"-", "+"}
        body   == IF signed THEN SubSeq(s, 2, Len(s)) ELSE s
        dots   == {k \in 1..Len(body) : body[k] = "."}
        dot    == IF dots = {} THEN Len(body) + 1
                  ELSE CHOOSE k \in dots : \A m \in dots : k <= m
        ip     == SubSeq(body, 1, dot - 1)
        fp     == SubSeq(body, dot + 1, Len(body))
        wellFormed ==
            /\ Cardinality(dots) <= 1
            /\ \A k \in 1..Len(ip) : ip[k] \in Digits
            /\ \A k \in 1..Len(fp) : fp[k] \in Digits
            /\ Len(ip) + Len(fp) >= 1
            /\ Len(fp) <= 2
        frac   == IF Len(fp) = 0 THEN 0
                  ELSE IF Len(fp) = 1 THEN DigitVal(fp[1]) * 10
                  ELSE DigitVal(fp[1]) * 10 + DigitVal(fp[2])
        mag    == DigitsVal(ip) * 100 + frac
    IN  IF wellFormed
        THEN [ok |-> TRUE, val |-> IF signed /\ s[1] = "-" THEN -mag ELSE mag]
        ELSE [ok |-> FALSE, val |-> 0]

-----------------------------------------------------------------------------
(* Decoding *)

\* UnmarshalJSON that also reads a number out of a JSON string
UnmarshalJSONLenient(d) == IF d.t \in {"int", "str"} THEN d.v ELSE 0

\* EventDateType.UnmarshalJSON: json.Unmarshal(data, &v) into an int64 whose
\* error is ignored; v keeps 0 unless the JSON value is an integer number.
UnmarshalJSON(d) == IF d.t = "int" THEN d.v ELSE 0

\* json.Unmarshal of one element of riderData.Data into an Event.  An absent
\* event_date leaves EventDateSecs at its zero value without calling
\* UnmarshalJSON.
DecodeEvent(r) ==
    [ EventType     |-> r.f_t,
      EventDateSecs |-> IF r.event_date.t = "absent" THEN 0
                        ELSE UnmarshalJSON(r.event_date),
      EventTitle    |-> r.event_title,
      AvgWkg        |-> r.avg_wkg,
      WkgFtp        |-> r.wkg_ftp ]

-----------------------------------------------------------------------------
(* The loop body of ImportRider *)

\* daysAgo := int(time.Now().Sub(e.EventDate).Hours() / 24)
DaysAgo(n, eventDate) == Trunc(n - eventDate, DayLen)

\* YearWindow with the window cut one day short
YearWindowStrict(r, daysAgo, isRace) ==
    IF daysAgo < 365
    THEN [r EXCEPT !.Rides = @ + 1,
                   !.Races = IF isRace THEN @ + 1 ELSE @]
    ELSE r

\* if daysAgo <= 365 { rider.Rides++; if isRace { rider.Races++ } }
YearWindow(r, daysAgo, isRace) ==
    IF daysAgo <= 365
    THEN [r EXCEPT !.Rides = @ + 1,
                   !.Races = IF isRace THEN @ + 1 ELSE @]
    ELSE r

\* eventWkgFtp := e.WkgFtp.([]interface{}); eventWkgFtp[0].(float64), else
\* strconv.ParseFloat(eventWkgFtp[0].(string), 64), else log.Fatal
ParseWkgFtp(f) ==
    IF f.kind # "list" THEN [st |-> "panic", val |-> 0]
    ELSE IF Len(f.elems) = 0 THEN [st |-> "panic", val |-> 0]
    ELSE IF f.elems[1].t = "num" THEN [st |-> "ok", val |-> f.elems[1].v]
    ELSE IF f.elems[1].t # "str" THEN [st |-> "panic", val |-> 0]
    ELSE LET p == ParseFloat(f.elems[1].s)
         IN  IF p.ok THEN [st |-> "ok", val |-> p.val]
             ELSE [st |-> "fatal", val |-> 0]

\* strconv.ParseFloat(e.AvgWkg.([]interface{})[0].(string), 64), else log.Fatal
ParseAvgWkg(f) ==
    IF f.kind # "list" THEN [st |-> "panic", val |-> 0]
    ELSE IF Len(f.elems) = 0 THEN [st |-> "panic", val |-> 0]
    ELSE IF f.elems[1].t # "str" THEN [st |-> "panic", val |-> 0]
    ELSE LET p == ParseFloat(f.elems[1].s)
         IN  IF p.ok THEN [st |-> "ok", val |-> p.val]
             ELSE [st |-> "fatal", val |-> 0]

\* Window90 with Races90++ inside the branch that raises Ftp90
Window90Misplaced(r, daysAgo, isRace, wkgFtp) ==
    IF daysAgo <= 90 /\ wkgFtp > r.Ftp90
    THEN [r EXCEPT !.Ftp90   = wkgFtp,
                   !.Races90 = IF isRace THEN @ + 1 ELSE @]
    ELSE r

\* if daysAgo <= 90 { if wkgFtp > rider.Ftp90 {..}; if isRace { rider.Races90++ } }
Window90(r, daysAgo, isRace, wkgFtp) ==
    IF daysAgo <= 90
    THEN [r EXCEPT !.Ftp90   = IF wkgFtp > @ THEN wkgFtp ELSE @,
                   !.Races90 = IF isRace THEN @ + 1 ELSE @]
    ELSE r

\* Window60 without the comparison: the last ratio of the window is kept
Window60LastWins(r, daysAgo, wkgFtp) ==
    IF daysAgo <= 60
    THEN [r EXCEPT !.Ftp60 = wkgFtp]
    ELSE r

\* if daysAgo <= 60 { if wkgFtp > rider.Ftp60 {..} }
Window60(r, daysAgo, wkgFtp) ==
    IF daysAgo <= 60
    THEN [r EXCEPT !.Ftp60 = IF wkgFtp > @ THEN wkgFtp ELSE @]
    ELSE r

\* Window30 without the comparison: the last ratio of the window is kept
Window30LastWins(r, daysAgo, isRace, wkgFtp) ==
    IF daysAgo <= 30
    THEN [r EXCEPT !.Races30 = IF isRace THEN @ + 1 ELSE @,
                   !.Ftp30   = wkgFtp]
    ELSE r

\* if daysAgo <= 30 { if isRace { rider.Races30++ }; if wkgFtp > rider.Ftp30 {..} }
Window30(r, daysAgo, isRace, wkgFtp) ==
    IF daysAgo <= 30
    THEN [r EXCEPT !.Races30 = IF isRace THEN @ + 1 ELSE @,
                   !.Ftp30   = IF wkgFtp > @ THEN wkgFtp ELSE @]
    ELSE r

\* if e.EventDate.After(latestEventDate) {..}
LatestEventUpdate(acc, eventDate, title) ==
    IF After(eventDate, acc.led)
    THEN [acc EXCEPT !.led = eventDate, !.rider.LatestEvent = title]
    ELSE acc

\* LatestRaceUpdate without the test of isRace
LatestRaceUpdateAnyEvent(acc, isRace, eventDate, title, avgWkg, wkgFtp) ==
    IF After(eventDate, acc.lrd)
    THEN [acc EXCEPT !.lrd = eventDate,
                     !.rider.LatestRace = title,
                     !.rider.LatestRaceAvgWkg = avgWkg,
                     !.rider.LatestRaceWkgFtp = wkgFtp]
    ELSE acc

\* if isRace && e.EventDate.After(latestRaceDate) {..}
LatestRaceUpdate(acc, isRace, eventDate, title, avgWkg, wkgFtp) ==
    IF isRace /\ After(eventDate, acc.lrd)
    THEN [acc EXCEPT !.lrd = eventDate,
                     !.rider.LatestRace = title,
                     !.rider.LatestRaceAvgWkg = avgWkg,
                     !.rider.LatestRaceWkgFtp = wkgFtp]
    ELSE acc

\* One iteration of `for _, e := range r.Data` on event e, with the clock
\* reading n.  acc holds rider and the two locals; st tells how it ended:
\* "ok", "fatal" (log.Fatal: the process exits) or "panic" (a failed type
\* assertion or an index out of range).
LoopBody(acc, e, n) ==
    LET eventDate == TimeUnix(e.EventDateSecs)
        daysAgo   == DaysAgo(n, eventDate)
        isRace    == Contains(e.EventType, RACE)
        r1        == YearWindow(acc.rider, daysAgo, isRace)
        wf        == ParseWkgFtp(e.WkgFtp)
        av        == ParseAvgWkg(e.AvgWkg)
        r2        == Window90(r1, daysAgo, isRace, wf.val)
        r3        == Window60(r2, daysAgo, wf.val)
        r4        == Window30(r3, daysAgo, isRace, wf.val)
        a5        == LatestEventUpdate([acc EXCEPT !.rider = r4], eventDate, e.EventTitle)
        a6        == LatestRaceUpdate(a5, isRace, eventDate, e.EventTitle, av.val, wf.val)
    IN  IF wf.st # "ok" THEN [acc EXCEPT !.st = wf.st, !.rider = r1]
        ELSE IF av.st # "ok" THEN [acc EXCEPT !.st = av.st, !.rider = r1]
        ELSE a6

\* var rider Rider; var latestEventDate, latestRaceDate time.Time
StartAcc == [st |-> "ok", rider |-> ZeroRider, led |-> ZeroTime, lrd |-> ZeroTime]

\* rider.LatestEventDate = latestEventDate; rider.LatestRaceDate = latestRaceDate
Finish(acc) ==
    [acc.rider EXCEPT !.LatestEventDate = acc.led, !.LatestRaceDate = acc.lrd]

-----------------------------------------------------------------------------
(* The state machine: ImportRider from the decoding of the payload on.     *)
(* pc is the position in the function: "decode" (line 107), "loop" (the    *)
(* head of the range loop, line 122), "parse" (line 135), "windows" (line  *)
(* 152), "latest" (line 181), and the ways it ends: "done" (a return),     *)
(* "fatal" (log.Fatal) and "panic".  i counts the events whose iteration   *)
(* has begun; loc holds the locals of the iteration.                       *)

\* the locals of an iteration, outside one
NoLoc == [eventDate |-> 0, daysAgo |-> 0, isRace |-> FALSE, wkgFtp |-> 0, avgWkg |-> 0]

\* the accumulator held in the variables
Acc == [st |-> "ok", rider |-> rider, led |-> latestEventDate, lrd |-> latestRaceDate]

\* the values time.Now() may return in the next iteration
ClockReads == {n \in {now, now + 1} : n <= NowDay * DayLen + MaxTicks}

\* err = json.Unmarshal(data, &r).  The payloads of the model are well-formed
\* JSON whose fields have the types of Event, so the decoding returns no
\* error (the fetch and the returns of lines 102-112 are not modelled).
Unmarshal ==
    /\ pc = "decode"
    /\ data' = [k \in 1..Len(raw) |-> DecodeEvent(raw[k])]
    /\ pc' = "loop"
    /\ UNCHANGED <<raw, i, loc, rider, latestEventDate, latestRaceDate, now, reads, err>>

\* ReturnEmpty that reports the empty history as an error
ReturnEmptyAsError ==
    /\ pc = "loop"
    /\ Len(data) < 1
    /\ pc' = "done"
    /\ err' = "no events"
    /\ UNCHANGED <<raw, data, i, loc, rider, latestEventDate, latestRaceDate, now, reads>>

\* if len(r.Data) < 1 { return rider, nil }
ReturnEmpty ==
    /\ pc = "loop"
    /\ Len(data) < 1
    /\ pc' = "done"
    /\ err' = "nil"
    /\ UNCHANGED <<raw, data, i, loc, rider, latestEventDate, latestRaceDate, now, reads>>

\* lines 122-133: the next event, its date, daysAgo and isRace, and the
\* window of 365 days
BeginEvent ==
    /\ pc = "loop"
    /\ i < Len(data)
    /\ \E n \in ClockReads :
          LET e         == data[i + 1]
              eventDate == TimeUnix(e.EventDateSecs)
              daysAgo   == DaysAgo(n, eventDate)
              isRace    == Contains(e.EventType, RACE)
          IN  /\ loc' = [NoLoc EXCEPT !.eventDate = eventDate,
                                      !.daysAgo = daysAgo,
                                      !.isRace = isRace]
              /\ rider' = YearWindow(rider, daysAgo, isRace)
              /\ now' = n
              /\ reads' = Append(reads, n)
    /\ i' = i + 1
    /\ pc' = "parse"
    /\ UNCHANGED <<raw, data, latestEventDate, latestRaceDate, err>>

\* lines 135-150, both ratios obtained
ParseOK ==
    /\ pc = "parse"
    /\ ParseWkgFtp(data[i].WkgFtp).st = "ok"
    /\ ParseAvgWkg(data[i].AvgWkg).st = "ok"
    /\ loc' = [loc EXCEPT !.wkgFtp = ParseWkgFtp(data[i].WkgFtp).val,
                          !.avgWkg = ParseAvgWkg(data[i].AvgWkg).val]
    /\ pc' = "windows"
    /\ UNCHANGED <<raw, data, i, rider, latestEventDate, latestRaceDate, now, reads, err>>

\* lines 135-150 ending in log.Fatal(err): the process exits
ParseFatal ==
    /\ pc = "parse"
    /\ \/ ParseWkgFtp(data[i].WkgFtp).st = "fatal"
       \/ /\ ParseWkgFtp(data[i].WkgFtp).st = "ok"
          /\ ParseAvgWkg(data[i].AvgWkg).st = "fatal"
    /\ pc' = "fatal"
    /\ UNCHANGED <<raw, data, i, loc, rider, latestEventDate, latestRaceDate, now, reads, err>>

\* lines 135-150 ending in a run-time panic
ParsePanic ==
    /\ pc = "parse"
    /\ \/ ParseWkgFtp(data[i].WkgFtp).st = "panic"
       \/ /\ ParseWkgFtp(data[i].WkgFtp).st = "ok"
          /\ ParseAvgWkg(data[i].AvgWkg).st = "panic"
    /\ pc' = "panic"
    /\ UNCHANGED <<raw, data, i, loc, rider, latestEventDate, latestRaceDate, now, reads, err>>

\* lines 152-179: the windows of 90, 60 and 30 days
Windows ==
    /\ pc = "windows"
    /\ rider' = Window30(Window60(Window90(rider, loc.daysAgo, loc.isRace, loc.wkgFtp),
                                  loc.daysAgo, loc.wkgFtp),
                         loc.daysAgo, loc.isRace, loc.wkgFtp)
    /\ pc' = "latest"
    /\ UNCHANGED <<raw, data, i, loc, latestEventDate, latestRaceDate, now, reads, err>>

\* lines 181-191: the latest event and the latest race; the iteration ends
Latest ==
    /\ pc = "latest"
    /\ LET a == LatestRaceUpdate(
                    LatestEventUpdate(Acc, loc.eventDate, data[i].EventTitle),
                    loc.isRace, loc.eventDate, data[i].EventTitle, loc.avgWkg, loc.wkgFtp)
       IN  /\ rider' = a.rider
           /\ latestEventDate' = a.led
           /\ latestRaceDate' = a.lrd
    /\ loc' = NoLoc
    /\ pc' = "loop"
    /\ UNCHANGED <<raw, data, i, now, reads, err>>

\* lines 194-196: the two dates are stored and rider is returned
Return ==
    /\ pc = "loop"
    /\ Len(data) >= 1
    /\ i = Len(data)
    /\ rider' = Finish(Acc)
    /\ pc' = "done"
    /\ err' = "nil"
    /\ UNCHANGED <<raw, data, i, loc, latestEventDate, latestRaceDate, now, reads>>

Next ==
    \/ Unmarshal
    \/ ReturnEmpty
    \/ BeginEvent
    \/ ParseOK
    \/ ParseFatal
    \/ ParsePanic
    \/ Windows
    \/ Latest
    \/ Return

-----------------------------------------------------------------------------
(* Inputs *)

Num(v) == [t |-> "num", v |-> v, s |-> <<>>]
Str(s) == [t |-> "str", v |-> 0, s |-> s]
Bool == [t |-> "bool", v |-> 0, s |-> <<>>]
List(e) == [kind |-> "list", elems |-> <<e>>]
EmptyList == [kind |-> "list", elems |-> <<>>]
Nil == [kind |-> "nil", elems |-> <<>>]

\* a JSON event_date: its type, and the number it spells (0 when none)
IntDate(v) == [t |-> "int", v |-> v]
StrDate(v) == [t |-> "str", v |-> v]
FracDate(v) == [t |-> "frac", v |-> v]
NullDate == [t |-> "null", v |-> 0]
AbsentDate == [t |-> "absent", v |-> 0]

TYPE_RACE == <<"T", "Y", "P", "E", "_", "R", "A", "C", "E">>
TYPE_RIDE == <<"T", "Y", "P", "E", "_", "R", "I", "D", "E">>
LowerRace == <<"r", "a", "c", "e">>

Txt110 == <<"1", ".", "1", "0">>
Txt11 == <<"1", ".", "1">>
Txt105 == <<"1", ".", "0", "5">>
Txt20 == <<"2", ".", "0">>
Txt325 == <<"3", ".", "2", "5">>
TxtNeg05 == <<"-", "0", ".", "5">>
TxtBad == <<"a", "b", "c">>
TxtEmpty == <<>>

Ev(ft, date, title, avg, wkg) ==
    [f_t |-> ft, event_date |-> date, event_title |-> title, avg_wkg |-> avg, wkg_ftp |-> wkg]

\* the clock when the run starts
Now0 == NowDay * DayLen

\* the timestamp of an event `age` units before the start of the run
Ago(age) == IntDate(Now0 - age)

\* the ages at the edge of the window of n days: the last unit of day n, and
\* the first unit of day n + 1
Edge(n) == {n * DayLen + DayLen - 1, (n + 1) * DayLen}

\* an event that ends the run in log.Fatal, one that ends it in a panic
FatalEvent == Ev(TYPE_RACE, Ago(DayLen), "X", List(Str(Txt110)), List(Str(TxtBad)))
PanicEvent == Ev(TYPE_RIDE, Ago(DayLen), "Y", List(Str(Txt110)), EmptyList)

Histories(U, maxLen) == UNION {[1..n -> U] : n \in 0..maxLen}

InitWith(U, maxLen) ==
    /\ raw \in Histories(U, maxLen)
    /\ data = <<>>
    /\ pc = "decode"
    /\ i = 0
    /\ loc = NoLoc
    /\ rider = ZeroRider
    /\ latestEventDate = ZeroTime
    /\ latestRaceDate = ZeroTime
    /\ now = Now0
    /\ reads = <<>>
    /\ err = "nil"

\* events that differ in date, kind, title and ratios, with ties on the
\* date, events older than every window and events dated at the epoch
LatestUniverse ==
    { Ev(TYPE_RIDE, Ago(10 * DayLen), "A", List(Str(Txt110)), List(Num(105))),
      Ev(TYPE_RACE, Ago(10 * DayLen), "B", List(Str(Txt105)), List(Str(Txt105))),
      Ev(RACE,      Ago(10 * DayLen), "C", List(Str(Txt20)),  List(Num(325))),
      Ev(TYPE_RIDE, Ago(400 * DayLen), "E", List(Str(Txt11)),  List(Str(Txt20))),
      Ev(TYPE_RACE, Ago(40 * DayLen), "F", List(Str(Txt11)),  List(Str(Txt110))),
      Ev(LowerRace, Ago(30 * DayLen + DayLen - 1), "G", List(Str(Txt105)), List(Num(120))),
      Ev(TYPE_RIDE, AbsentDate, "H", List(Str(Txt110)), List(Num(90))),
      Ev(TYPE_RACE, IntDate(0), "I", List(Str(Txt20)), List(Num(95))),
      FatalEvent, PanicEvent }

\* races and rides at the edges of the windows of 30, 90 and 365 days, and
\* dated after the start of the run
CountUniverse ==
    { Ev(ft, Ago(age), "T", List(Str(Txt110)), List(Num(105))) :
        ft \in {TYPE_RACE, TYPE_RIDE},
        age \in Edge(30) \cup Edge(90) \cup Edge(365) \cup {-(DayLen + 1)} }
    \cup {FatalEvent, PanicEvent}

\* events at the edges of the windows of 30, 60 and 90 days, each with a
\* positive ratio of its own or with a ratio that is not positive
FtpUniverse ==
    { Ev(TYPE_RIDE, Ago(age), "T", List(Str(Txt110)), List(Num(100 + age))) :
        age \in Edge(30) \cup Edge(60) \cup Edge(90) }
    \cup { Ev(TYPE_RACE, Ago(age), "U", List(Str(Txt110)), List(Num(0))) :
        age \in {31 * DayLen, 61 * DayLen} }
    \cup { Ev(TYPE_RACE, Ago(age), "V", List(Str(Txt110)), List(Str(TxtNeg05))) :
        age \in {-1, 91 * DayLen} }
    \cup { Ev(TYPE_RIDE, Ago(DayLen), "W", List(Str(Txt110)), List(Str(Txt105))) }
    \cup {FatalEvent, PanicEvent}

\* the encodings of the payload: ratios as numbers and as text, well formed
\* and not; timestamps as integers, strings, fractions, null and absent
ParseUniverse ==
    { Ev(TYPE_RACE, Ago(10 * DayLen), "A", List(Str(Txt325)), List(Str(Txt325))),
      Ev(TYPE_RACE, Ago(10 * DayLen), "A", List(Str(Txt325)), List(Num(325))),
      Ev(TYPE_RACE, Ago(10 * DayLen), "A", List(Num(325)), List(Num(325))),
      Ev(TYPE_RIDE, Ago(20 * DayLen), "B", List(Str(Txt11)), List(Str(Txt110))),
      Ev(TYPE_RIDE, StrDate(Now0 - DayLen), "C", List(Str(Txt105)), List(Num(200))),
      Ev(TYPE_RACE, StrDate(0), "D", List(Str(Txt20)), List(Str(Txt20))),
      Ev(TYPE_RACE, FracDate(Now0 - DayLen), "E", List(Str(Txt110)), List(Num(110))),
      Ev(TYPE_RIDE, NullDate, "F", List(Str(Txt105)), List(Str(Txt105))),
      Ev(TYPE_RIDE, AbsentDate, "G", List(Str(Txt110)), List(Num(90))),
      Ev(TYPE_RACE, Ago(DayLen), "M", List(Str(Txt110)), List(Bool)),
      Ev(TYPE_RACE, Ago(DayLen), "N", Nil, List(Num(110))),
      Ev(TYPE_RIDE, Ago(DayLen), "O", List(Str(TxtEmpty)), List(Num(110))),
      FatalEvent, PanicEvent }

Init == InitWith(LatestUniverse, MaxEvents)
InitCount == InitWith(CountUniverse, MaxEventsWide)
InitFtp == InitWith(FtpUniverse, MaxEventsWide)
InitParse == InitWith(ParseUniverse, MaxEvents)

Spec == Init /\ [][Next]_vars
SpecCount == InitCount /\ [][Next]_vars
SpecFtp == InitFtp /\ [][Next]_vars
SpecParse == InitParse /\ [][Next]_vars

-----------------------------------------------------------------------------
(* ImportRider as a function of the decoded events and the clock readings *)

RECURSIVE FoldFrom(_, _, _, _)
\* the loop over events k..Len(d), stopping at the first that fails
FoldFrom(acc, d, rs, k) ==
    IF k > Len(d) \/ acc.st # "ok" THEN acc
    ELSE FoldFrom(LoopBody(acc, d[k], rs[k]), d, rs, k + 1)

\* the outcome of ImportRider on events d when iteration k reads the clock
\* as rs[k]: how it ends, and the rider returned (none unless it returns)
ImportRiderOn(d, rs) ==
    IF Len(d) < 1 THEN [st |-> "ok", rider |-> ZeroRider]
    ELSE LET a == FoldFrom(StartAcc, d, rs, 1)
         IN  IF a.st = "ok" THEN [st |-> "ok", rider |-> Finish(a)]
             ELSE [st |-> a.st, rider |-> ZeroRider]

-----------------------------------------------------------------------------
(* Vocabulary of the properties *)

\* the run has returned to its caller
Returned == pc = "done"

\* the events folded so far, at the head of the loop and after the return
AtBoundary == pc \in {"loop", "done"}

DateOf(k) == TimeUnix(data[k].EventDateSecs)
RaceAt(k) == Contains(data[k].EventType, RACE)
RatioOf(k) == ParseWkgFtp(data[k].WkgFtp).val
AvgOf(k) == ParseAvgWkg(data[k].AvgWkg).val

\* event k was at most n whole days old when its iteration read the clock:
\* fewer than n + 1 days had passed (none at all when it is dated later)
Within(k, n) == reads[k] - DateOf(k) < (n + 1) * DayLen

InWindow(n) == {k \in 1..i : Within(k, n)}
RacesIn(n) == {k \in InWindow(n) : RaceAt(k)}

SetMax(S) == CHOOSE x \in S : \A y \in S : y <= x
SetMin(S) == CHOOSE x \in S : \A y \in S : x <= y

\* every iteration read the same instant from the clock
SameNow == \A k \in 1..Len(reads) : reads[k] = reads[1]

Orders(n) == {f \in [1..n -> 1..n] : \A a, b \in 1..n : f[a] = f[b] => a = b}

-----------------------------------------------------------------------------
(* C1 *)

\* C1: at every point of the fold, and so after every prefix of the events,
\* Races30 <= Races90 <= Races and Rides >= Races.
C1_WindowMonotone ==
    /\ rider.Races30 <= rider.Races90
    /\ rider.Races90 <= rider.Races
    /\ rider.Rides >= rider.Races

\* a run in which the four counters are told apart by the events
C1_Witness ==
    /\ Returned
    /\ rider.Races30 = 1
    /\ rider.Races90 = 2
    /\ rider.Rides = 2

-----------------------------------------------------------------------------
(* C2 *)

\* C2: after every prefix, Rides is the number of events at most 365 whole
\* days old, and Races, Races90, Races30 the number of race events at most
\* 365, 90, 30 whole days old; an event exactly N days old counts, one of
\* N + 1 days does not, and one dated after the clock reading counts.
C2_CountersCountWindows ==
    AtBoundary =>
        /\ rider.Rides = Cardinality(InWindow(365))
        /\ rider.Races = Cardinality(RacesIn(365))
        /\ rider.Races90 = Cardinality(RacesIn(90))
        /\ rider.Races30 = Cardinality(RacesIn(30))

\* a race in the last unit of its 365th day is counted and a race 366 days
\* old is not
C2_Witness ==
    /\ Returned
    /\ Len(data) = 2
    /\ RaceAt(1) /\ RaceAt(2)
    /\ reads[1] - DateOf(1) = 365 * DayLen + DayLen - 1
    /\ reads[2] - DateOf(2) = 366 * DayLen
    /\ rider.Rides = 1
    /\ rider.Races = 1

-----------------------------------------------------------------------------
(* C3 *)

\* the ratios of the events of the window of n days
RatiosIn(n) == {RatioOf(k) : k \in InWindow(n)}

\* C3 as claimed: each of Ftp90, Ftp60, Ftp30 is the greatest ratio of its
\* window, and is 0 exactly when no event is in the window.
C3_MaxAndZeroIffNone ==
    Returned =>
        /\ RatiosIn(90) # {} => rider.Ftp90 = SetMax(RatiosIn(90))
        /\ RatiosIn(60) # {} => rider.Ftp60 = SetMax(RatiosIn(60))
        /\ RatiosIn(30) # {} => rider.Ftp30 = SetMax(RatiosIn(30))
        /\ rider.Ftp90 = 0 <=> RatiosIn(90) = {}
        /\ rider.Ftp60 = 0 <=> RatiosIn(60) = {}
        /\ rider.Ftp30 = 0 <=> RatiosIn(30) = {}

\* C3 as amended: after every prefix each of Ftp90, Ftp60, Ftp30 is the
\* greatest of 0 and the ratios of its window; it is 0 when no event is in
\* the window, and also when no ratio of the window is positive.
C3_MaxWithZero ==
    AtBoundary =>
        /\ rider.Ftp90 = SetMax({0} \cup RatiosIn(90))
        /\ rider.Ftp60 = SetMax({0} \cup RatiosIn(60))
        /\ rider.Ftp30 = SetMax({0} \cup RatiosIn(30))

\* the three maxima differ, the greater ratio having come first
C3_Witness ==
    /\ Returned
    /\ Len(data) = 2
    /\ RatioOf(1) > RatioOf(2)
    /\ rider.Ftp90 = RatioOf(1)
    /\ rider.Ftp60 = RatioOf(2)
    /\ rider.Ftp30 = 0
    /\ InWindow(60) # {}

-----------------------------------------------------------------------------
(* C4 *)

\* the ratio field with its first element, when it is the text of a number,
\* given as that number
AsNumber(f) ==
    IF f.kind = "list" /\ Len(f.elems) >= 1 /\ f.elems[1].t = "str"
       /\ ParseFloat(f.elems[1].s).ok
    THEN [f EXCEPT !.elems[1] = Num(ParseFloat(f.elems[1].s).val)]
    ELSE f

\* the events with the ratios of the fields chosen by avg and wkg as numbers
Renumbered(d, avg, wkg) ==
    [k \in 1..Len(d) |->
        [d[k] EXCEPT !.AvgWkg = IF avg THEN AsNumber(@) ELSE @,
                     !.WkgFtp = IF wkg THEN AsNumber(@) ELSE @]]

\* C4: a run that returns a rider returns the same rider when the ratios it
\* was given as text are given as numbers, in either field.
C4_EncodingIndependent ==
    Returned =>
        \A avg, wkg \in BOOLEAN :
            ImportRiderOn(Renumbered(data, avg, wkg), reads)
                = [st |-> "ok", rider |-> rider]

-----------------------------------------------------------------------------
(* C5 *)

\* a ratio field as C5 describes it: absent, not a list, empty, or with a
\* first element that is neither a number nor the text of a number
MalformedRatio(f) ==
    \/ f.kind # "list"
    \/ Len(f.elems) = 0
    \/ f.elems[1].t \notin {"num", "str"}
    \/ f.elems[1].t = "str" /\ ~ParseFloat(f.elems[1].s).ok

\* C5: once the ratios of an event with a malformed ratio field have been
\* read, the run has returned a MalformedRatioError to its caller.
C5_MalformedRatioReturned ==
    (/\ i >= 1
     /\ pc \notin {"decode", "parse"}
     /\ MalformedRatio(data[i].WkgFtp) \/ MalformedRatio(data[i].AvgWkg))
        => (Returned /\ err = "MalformedRatioError")

-----------------------------------------------------------------------------
(* C6 *)

Dates == {DateOf(k) : k \in 1..Len(data)}
Races == {k \in 1..Len(data) : RaceAt(k)}
RaceDates == {DateOf(k) : k \in Races}
OnLatestDate == {k \in 1..Len(data) : DateOf(k) = SetMax(Dates)}
OnLatestRaceDate == {k \in Races : DateOf(k) = SetMax(RaceDates)}

\* C6: when several events share the latest date, LatestEvent is the title
\* of the first of them in the input; when several races share the latest
\* race date, LatestRace and its two ratios are those of the first of them.
C6_FirstOfTiedWins ==
    Returned =>
        /\ Cardinality(OnLatestDate) >= 2 =>
              /\ rider.LatestEvent = data[SetMin(OnLatestDate)].EventTitle
              /\ rider.LatestEventDate = SetMax(Dates)
        /\ Cardinality(OnLatestRaceDate) >= 2 =>
              /\ rider.LatestRace = data[SetMin(OnLatestRaceDate)].EventTitle
              /\ rider.LatestRaceAvgWkg = AvgOf(SetMin(OnLatestRaceDate))
              /\ rider.LatestRaceWkgFtp = RatioOf(SetMin(OnLatestRaceDate))
              /\ rider.LatestRaceDate = SetMax(RaceDates)

\* two races of different titles tied on the latest date
C6_Witness ==
    /\ Returned
    /\ Len(data) = 2
    /\ RaceAt(1) /\ RaceAt(2)
    /\ DateOf(1) = DateOf(2)
    /\ data[1].EventTitle # data[2].EventTitle
    /\ rider.LatestRace = data[1].EventTitle
    /\ rider.LatestEvent = data[1].EventTitle

-----------------------------------------------------------------------------
(* C7 *)

\* C7: of a run on at least one event, LatestEventDate is the greatest date
\* of all events, in a window or not; when there is a race, LatestRaceDate
\* is the greatest date of the races, and LatestRace, LatestRaceAvgWkg and
\* LatestRaceWkgFtp are the title and ratios of one race of that date.
C7_LatestIsMaximum ==
    (Returned /\ Len(data) >= 1) =>
        /\ rider.LatestEventDate = SetMax(Dates)
        /\ \E k \in OnLatestDate : rider.LatestEvent = data[k].EventTitle
        /\ Races # {} =>
              /\ rider.LatestRaceDate = SetMax(RaceDates)
              /\ \E k \in OnLatestRaceDate :
                    /\ rider.LatestRace = data[k].EventTitle
                    /\ rider.LatestRaceAvgWkg = AvgOf(k)
                    /\ rider.LatestRaceWkgFtp = RatioOf(k)

\* the latest event is in no window and is later than the latest race
C7_Witness ==
    /\ Returned
    /\ Len(data) = 2
    /\ rider.Rides = 0
    /\ rider.LatestRace # ""
    /\ rider.LatestEvent # rider.LatestRace
    /\ rider.LatestEventDate > rider.LatestRaceDate
    /\ rider.LatestRaceDate > ZeroTime

-----------------------------------------------------------------------------
(* C8 *)

\* C8: a run on no events returns, with no error, the rider whose counters
\* and maxima are 0 and whose latest event and race are unset.
C8_EmptyInput ==
    Len(raw) = 0 =>
        /\ pc \in {"decode", "loop", "done"}
        /\ Returned =>
              /\ err = "nil"
              /\ rider.Rides = 0 /\ rider.Races = 0
              /\ rider.Races90 = 0 /\ rider.Races30 = 0
              /\ rider.Ftp90 = 0 /\ rider.Ftp60 = 0 /\ rider.Ftp30 = 0
              /\ rider.LatestEventDate = ZeroTime /\ rider.LatestEvent = ""
              /\ rider.LatestRaceDate = ZeroTime /\ rider.LatestRace = ""

C8_Witness == Returned /\ Len(raw) = 0

-----------------------------------------------------------------------------
(* C9 *)

\* the events in the order f
Reordered(f) == [k \in 1..Len(data) |-> data[f[k]]]

\* C9: when every iteration reads the same instant, a run on the same events
\* in another order returns a rider with the same four counters, the same
\* three maxima and the same two latest dates; LatestEvent differs only when
\* several events have the latest date, and LatestRace and its ratios only
\* when several races have the latest race date.
C9_OrderIndependent ==
    (Returned /\ SameNow) =>
        \A f \in Orders(Len(data)) :
            LET o == ImportRiderOn(Reordered(f), reads)
            IN  /\ o.st = "ok"
                /\ o.rider.Rides = rider.Rides
                /\ o.rider.Races = rider.Races
                /\ o.rider.Races90 = rider.Races90
                /\ o.rider.Races30 = rider.Races30
                /\ o.rider.Ftp90 = rider.Ftp90
                /\ o.rider.Ftp60 = rider.Ftp60
                /\ o.rider.Ftp30 = rider.Ftp30
                /\ o.rider.LatestEventDate = rider.LatestEventDate
                /\ o.rider.LatestRaceDate = rider.LatestRaceDate
                /\ o.rider.LatestEvent # rider.LatestEvent
                      => Cardinality(OnLatestDate) >= 2
                /\ (\/ o.rider.LatestRace # rider.LatestRace
                    \/ o.rider.LatestRaceAvgWkg # rider.LatestRaceAvgWkg
                    \/ o.rider.LatestRaceWkgFtp # rider.LatestRaceWkgFtp)
                      => Cardinality(OnLatestRaceDate) >= 2

\* two different events of which the other order returns another title
C9_Witness ==
    /\ Returned /\ SameNow
    /\ Len(data) = 2
    /\ data[1] # data[2]
    /\ rider.Races30 = 1
    /\ \E f \in Orders(2) :
          ImportRiderOn(Reordered(f), reads).rider.LatestEvent # rider.LatestEvent

-----------------------------------------------------------------------------
(* C10 *)

\* the payload with every event_date that is not an integer replaced by 0
EpochSubstituted ==
    [k \in 1..Len(raw) |->
        IF raw[k].event_date.t = "int" THEN raw[k]
        ELSE [raw[k] EXCEPT !.event_date = IntDate(0)]]

\* C10: an event whose event_date is an integer t is dated t, any other is
\* dated 0; the run fails on no event whose two ratios can be read; and it
\* returns what it returns on the payload with 0 in place of every
\* event_date that is not an integer.
C10_UnknownDateIsEpoch ==
    /\ pc # "decode" =>
          \A k \in 1..Len(raw) :
              DateOf(k) = IF raw[k].event_date.t = "int"
                          THEN raw[k].event_date.v ELSE 0
    /\ pc \in {"parse", "windows", "latest"} => loc.eventDate = DateOf(i)
    /\ pc \in {"fatal", "panic"} =>
          \/ ParseWkgFtp(data[i].WkgFtp).st # "ok"
          \/ ParseAvgWkg(data[i].AvgWkg).st # "ok"
    /\ Returned =>
          ImportRiderOn([k \in 1..Len(raw) |-> DecodeEvent(EpochSubstituted[k])], reads)
              = [st |-> "ok", rider |-> rider]

\* a run on one event whose event_date is a string that spells a number
C10_Witness ==
    /\ Returned
    /\ Len(raw) = 1
    /\ raw[1].event_date.t = "str"
    /\ raw[1].event_date.v # 0
    /\ rider.LatestEventDate = 0
    /\ rider.LatestEvent = raw[1].event_title
    /\ rider.Rides = 0

-----------------------------------------------------------------------------
(* The scenario of the specification's section 8 *)

\* a race 40 days old with ratio 1.10, a race 10 days old with ratio 1.05
\* and a ride 400 days old with ratio 2.0 give Rides = 2, Races = 2,
\* Races90 = 2, Races30 = 1, Ftp90 = 1.10, Ftp60 = 1.10, Ftp30 = 1.05, and
\* the race of 10 days as latest event and latest race
Scenario ==
    (/\ Returned /\ SameNow /\ Len(data) = 3
     /\ data[1].EventTitle = "F" /\ data[2].EventTitle = "B" /\ data[3].EventTitle = "E")
        => /\ rider.Rides = 2 /\ rider.Races = 2
           /\ rider.Races90 = 2 /\ rider.Races30 = 1
           /\ rider.Ftp90 = 110 /\ rider.Ftp60 = 110 /\ rider.Ftp30 = 105
           /\ rider.LatestEventDate = DateOf(2)
           /\ rider.LatestRaceDate = DateOf(2)
           /\ rider.LatestRaceWkgFtp = 105

=============================================================================
